---- MODULE Spec2Model ----
(***************************************************************************)
(* Founder BI Agent (src/app.py): a Streamlit session holding two          *)
(* DataFrames and a chat history, the Monday.com sync, and ask_agent, which *)
(* asks a completion service for a program, extracts the first fenced     *)
(* python block, exec()s it and formats the value of result.               *)
(*                                                                         *)
(* Text is modelled as a sequence of tokens: a token is a fence, the word  *)
(* python, whitespace, a piece of prose, or one Python statement.          *)
(***************************************************************************)
EXTENDS Integers, Sequences, FiniteSets, TLC

\* ------------------------------------------------------------------ bounds
MaxMessages == 4
MaxSegments == 4

\* ------------------------------------------------------ program constants
HeadRows == 3

\* ------------------------------------------------------------------ tokens
\* three backquotes, the Markdown fence
TICKS == "<fence>"
PY == "python"
WS == " "
PROSE == "The answer is 7"
FENCE_PY == <<TICKS, PY>>
FENCE == <<TICKS>>

Whitespace == {WS}

\* ------------------------------------------------------- str operations
StartsAt(s, sep, i) ==
    /\ i >= 1
    /\ i + Len(sep) - 1 <= Len(s)
    /\ SubSeq(s, i, i + Len(sep) - 1) = sep

\* str.find, 1-based, 0 when sep does not occur
Find(s, sep) ==
    IF \E i \in 1..Len(s) : StartsAt(s, sep, i)
    THEN CHOOSE i \in 1..Len(s) :
            /\ StartsAt(s, sep, i)
            /\ \A j \in 1..(i - 1) : ~StartsAt(s, sep, j)
    ELSE 0

\* sep in s
Contains(s, sep) == Find(s, sep) # 0

RECURSIVE Split(_, _)
\* s.split(sep): the pieces between the non-overlapping occurrences of sep
Split(s, sep) ==
    LET i == Find(s, sep)
    IN  IF i = 0 THEN <<s>>
        ELSE <<SubSeq(s, 1, i - 1)>> \o Split(SubSeq(s, i + Len(sep), Len(s)), sep)

RECURSIVE LStrip(_)
LStrip(s) ==
    IF s # <<>> /\ Head(s) \in Whitespace THEN LStrip(Tail(s)) ELSE s

RECURSIVE RStrip(_)
RStrip(s) ==
    IF s # <<>> /\ s[Len(s)] \in Whitespace THEN RStrip(SubSeq(s, 1, Len(s) - 1)) ELSE s

\* s.strip()
Strip(s) == RStrip(LStrip(s))

RECURSIVE Flatten(_)
\* "".join(parts)
Flatten(parts) ==
    IF parts = <<>> THEN <<>> ELSE Head(parts) \o Flatten(Tail(parts))

\* ------------------------------------------------------------- DataFrame
\* A DataFrame: its column labels and its rows (one cell per label).
\* A cell is text (str), a number (num) or missing (null: None / NaN).
StrCell(chars) == [t |-> "str", v |-> chars]
NumCell(chars) == [t |-> "num", v |-> chars]
NullCell == [t |-> "null", v |-> <<>>]

\* pd.DataFrame()
EmptyFrame == [columns |-> <<>>, rows |-> <<>>]

\* df.empty
IsEmpty(df) == Len(df.columns) = 0 \/ Len(df.rows) = 0

\* df.head(n)
HeadOf(df, n) ==
    [df EXCEPT !.rows = SubSeq(df.rows, 1, IF Len(df.rows) < n THEN Len(df.rows) ELSE n)]

CellText(c) == IF c.t = "null" THEN <<"nan">> ELSE c.v

\* df.to_markdown(index=False): the header line, then one line per row;
\* the empty text for a frame without columns
ToMarkdown(df) ==
    IF Len(df.columns) = 0 THEN <<>>
    ELSE <<"|">> \o Flatten([i \in 1..Len(df.columns) |-> df.columns[i] \o <<"|">>])
         \o Flatten([r \in 1..Len(df.rows) |->
                <<"\n", "|">> \o Flatten([i \in 1..Len(df.columns) |->
                                    CellText(df.rows[r][i]) \o <<"|">>])])

\* ----------------------------------------------------- fetch_board_data
ITEM_NAME == <<"Item Name">>

\* dict: a sequence of <<key, value>> pairs in insertion order
DictHas(d, k) == \E i \in 1..Len(d) : d[i][1] = k
DictGet(d, k) == d[CHOOSE i \in 1..Len(d) : d[i][1] = k][2]
\* d[k] = v
DictSet(d, k, v) ==
    IF DictHas(d, k)
    THEN [i \in 1..Len(d) |-> IF d[i][1] = k THEN <<k, v>> ELSE d[i]]
    ELSE Append(d, <<k, v>>)

RECURSIVE RowOf(_, _)
\* row[col['column']['title']] = col['text'] for each column value
RowOf(row, column_values) ==
    IF column_values = <<>> THEN row
    ELSE RowOf(DictSet(row, Head(column_values).title, Head(column_values).text),
               Tail(column_values))

\* processed_data
ProcessedData(items) ==
    [i \in 1..Len(items) |->
        RowOf(<<<<ITEM_NAME, StrCell(items[i].name)>>>>, items[i].column_values)]

RECURSIVE KeysOf(_, _)
\* the keys of the row dicts in order of first appearance
KeysOf(rows, acc) ==
    IF rows = <<>> THEN acc
    ELSE LET r == Head(rows)
             new == SelectSeq([i \in 1..Len(r) |-> r[i][1]],
                              LAMBDA k : \A j \in 1..Len(acc) : acc[j] # k)
         IN  KeysOf(Tail(rows), acc \o new)

\* pd.DataFrame(processed_data)
FrameOf(processed) ==
    LET cols == KeysOf(processed, <<>>)
    IN  [columns |-> cols,
         rows |-> [r \in 1..Len(processed) |->
                     [i \in 1..Len(cols) |->
                        IF DictHas(processed[r], cols[i])
                        THEN DictGet(processed[r], cols[i]) ELSE NullCell]]]

\* What the Monday.com API answers to one request: the board's items, or a
\* failure (transport error, or JSON without data.boards[0]).
ColumnValue(title, text) == [title |-> title, text |-> text]
Item(name, cvs) == [name |-> name, column_values |-> cvs]
ReplyItems(items) == [kind |-> "items", items |-> items]
ReplyError == [kind |-> "error", items |-> <<>>]

Replies ==
    { ReplyError,
      ReplyItems(<<>>),
      ReplyItems(<<Item(<<"Acme">>,
                        <<ColumnValue(<<"Value", " ">>, StrCell(<<"$", "5">>)),
                          ColumnValue(<<"Stage">>, StrCell(<<"w", "o", "n">>))>>)>>),
      ReplyItems(<<Item(<<"Acme">>, <<ColumnValue(<<"Value">>, StrCell(<<"7">>))>>),
                   Item(<<"Bolt">>, <<ColumnValue(<<"Value">>, NullCell)>>)>>),
      ReplyItems(<<Item(<<"Acme">>,
                        <<ColumnValue(<<"Value">>, StrCell(<<"7">>)),
                          ColumnValue(<<"Value", " ">>, StrCell(<<"8">>))>>)>>) }

\* fetch_board_data(board_id, api_key) given the API's reply: the frame, whether
\* a request was posted, and whether st.error was shown
fetch_board_data(board_id, api_key, reply) ==
    IF board_id = "" \/ api_key = ""
    THEN [df |-> EmptyFrame, posted |-> FALSE, error |-> FALSE]
    ELSE IF reply.kind = "error"
    THEN [df |-> EmptyFrame, posted |-> TRUE, error |-> TRUE]
    ELSE [df |-> FrameOf(ProcessedData(reply.items)), posted |-> TRUE, error |-> FALSE]

\* ---------------------------------------------------------- clean_data
\* the digits that occur in the boards below
Digits == {"0", "1", "5", "7", "8"}
\* the dollar, euro and pound signs of line 95
Currency == {"$", "EUR", "GBP"}

\* str.isdigit()
IsDigit(s) == s # <<>> /\ \A i \in 1..Len(s) : s[i] \in Digits

\* s.replace('.', '', 1)
DropFirstDot(s) ==
    LET i == Find(s, <<".">>)
    IN  IF i = 0 THEN s ELSE SubSeq(s, 1, i - 1) \o SubSeq(s, i + 1, Len(s))

\* astype(str) of one cell
AsStr(c) ==
    IF c.t = "null" THEN <<"N", "o", "n", "e">> ELSE c.v

\* str.replace(r'[^\d.-]', '', regex=True)
KeepNumeric(s) == SelectSeq(s, LAMBDA ch : ch \in Digits \cup {".", "-"})

\* whether pd.to_numeric parses s: an optional sign, digits, at most one dot
ParsesAsNumber(s) ==
    LET body == IF s # <<>> /\ Head(s) = "-" THEN Tail(s) ELSE s
    IN  /\ \E i \in 1..Len(body) : body[i] \in Digits
        /\ \A i \in 1..Len(body) : body[i] \in Digits \cup {"."}
        /\ Cardinality({i \in 1..Len(body) : body[i] = "."}) <= 1

\* pd.to_numeric(..., errors='coerce').fillna(0) of one cell
ToNumeric(c) ==
    LET s == KeepNumeric(AsStr(c))
    IN  IF ParsesAsNumber(s) THEN NumCell(s) ELSE NumCell(<<"0">>)

Column(df, i) == [r \in 1..Len(df.rows) |-> df.rows[r][i]]

\* df[col].dtype of a column selected by position
Dtype(cells) ==
    IF \A r \in 1..Len(cells) : cells[r].t = "num" THEN "float64" ELSE "object"

\* the first non-null value as text, "" when there is none
Sample(cells) ==
    LET nonnull == SelectSeq(cells, LAMBDA c : c.t # "null")
    IN  IF nonnull = <<>> THEN <<>> ELSE AsStr(Head(nonnull))

LooksNumeric(sample) ==
    \/ \E i \in 1..Len(sample) : sample[i] \in Currency
    \/ IsDigit(DropFirstDot(sample))

\* df[col] is a DataFrame, not a Series, when the label occurs more than once
IsDuplicated(columns, i) == \E j \in 1..Len(columns) : j # i /\ columns[j] = columns[i]

\* clean_data(df): the cleaned frame, or the AttributeError raised by
\* df[col].dtype for a label that two columns share after strip()
clean_data(df) ==
    IF IsEmpty(df) THEN [raised |-> FALSE, df |-> df]
    ELSE LET cols == [i \in 1..Len(df.columns) |-> Strip(df.columns[i])]
             convert(i) == /\ Dtype(Column(df, i)) = "object"
                           /\ LooksNumeric(Sample(Column(df, i)))
         IN  IF \E i \in 1..Len(cols) : IsDuplicated(cols, i)
             THEN [raised |-> TRUE, df |-> df]
             ELSE [raised |-> FALSE,
                   df |-> [columns |-> cols,
                           rows |-> [r \in 1..Len(df.rows) |->
                                       [i \in 1..Len(cols) |->
                                          IF convert(i) THEN ToNumeric(df.rows[r][i])
                                          ELSE df.rows[r][i]]]]]

\* ------------------------------------------------------- Python values
Value(kind, v, df) == [kind |-> kind, v |-> v, df |-> df]
\* a name that is not bound
Unbound == Value("unbound", <<>>, EmptyFrame)
NoneValue == Value("NoneType", <<"None">>, EmptyFrame)
\* the DataFrame object held in a session_state slot (shared, not copied)
FrameRef(slot) == Value("DataFrame", <<slot>>, EmptyFrame)
\* a DataFrame object created by the program
NewFrame(df) == Value("DataFrame", <<>>, df)
PandasModule == Value("module", <<"pandas">>, EmptyFrame)

IsFrameRef(val) == val.kind = "DataFrame" /\ val.v # <<>>

\* ------------------------------------------------- generated statements
S_SCALAR == "result = 42"
S_TEXT == "result = 'won'"
S_MAP == "result = {'n': 1}"
S_NONE == "result = None"
S_TABLE == "result = df_deals"
\* an object whose str() raises TypeError
S_BADSTR == "result = type('R', (), {'__str__': None})()"
S_OTHER == "total = 1"
S_DROP_DEALS == "df_deals.drop(df_deals.index, inplace=True)"
S_DROP_ORDERS == "df_orders.drop(df_orders.index, inplace=True)"
S_REBIND == "df_deals = pd.DataFrame()"
S_OPEN == "fh = open('app.py')"
S_UNDEF == "result = st.session_state"
S_RAISE == "raise ValueError('bad')"
S_EXIT == "raise SystemExit"

Statements ==
    { S_SCALAR, S_TEXT, S_MAP, S_NONE, S_TABLE, S_BADSTR, S_OTHER, S_DROP_DEALS,
      S_DROP_ORDERS, S_REBIND, S_OPEN, S_UNDEF, S_RAISE, S_EXIT }

\* the names a statement looks up when it runs
Reads(tok) ==
    CASE tok = S_TABLE -> {"df_deals"}
      [] tok = S_BADSTR -> {"type"}
      [] tok = S_DROP_DEALS -> {"df_deals"}
      [] tok = S_DROP_ORDERS -> {"df_orders"}
      [] tok = S_REBIND -> {"pd"}
      [] tok = S_OPEN -> {"open"}
      [] tok = S_UNDEF -> {"st"}
      [] tok = S_RAISE -> {"ValueError"}
      [] tok = S_EXIT -> {"SystemExit"}
      [] tok = PY -> {"python"}
      [] OTHER -> {}

\* the names the program may bind
LocalNames == {"df_deals", "df_orders", "pd", "result", "total", "fh"}

\* the names of the builtins module the statements above use
Builtins == {"open", "type", "ValueError", "SystemExit"}

\* exec(code, {}, local_vars): exec() adds __builtins__ to a globals dict
\* that lacks it
ExecGlobals == {"__builtins__"}

\* name resolution: locals, then globals, then the builtins of the globals
Resolves(name, locals) ==
    \/ name \in LocalNames /\ locals[name] # Unbound
    \/ name \in ExecGlobals
    \/ "__builtins__" \in ExecGlobals /\ name \in Builtins

\* compile(): prose is not a Python statement
IsSyntaxError(tok) == tok = PROSE

\* df.drop(df.index, inplace=True)
DropAll(df) == [df EXCEPT !.rows = <<>>]

\* the frame object a name is bound to, dropped in place: the session_state
\* object through a reference, the program's own object otherwise
DropInPlace(st, name) ==
    LET val == st.locals[name]
    IN  IF val.kind # "DataFrame" THEN [st EXCEPT !.exc = "AttributeError"]
        ELSE IF IsFrameRef(val)
        THEN IF val.v = <<"df_deals">>
             THEN [st EXCEPT !.deals = DropAll(st.deals)]
             ELSE [st EXCEPT !.orders = DropAll(st.orders)]
        ELSE [st EXCEPT !.locals[name] = NewFrame(DropAll(val.df))]

Bind(st, name, val) == [st EXCEPT !.locals[name] = val]

\* one statement; st = [locals, deals, orders, exc]
ExecStatement(st, tok) ==
    IF \E n \in Reads(tok) : ~Resolves(n, st.locals)
    THEN [st EXCEPT !.exc = "NameError"]
    ELSE CASE tok = S_SCALAR -> Bind(st, "result", Value("int", <<"42">>, EmptyFrame))
           [] tok = S_TEXT -> Bind(st, "result", Value("str", <<"won">>, EmptyFrame))
           [] tok = S_MAP -> Bind(st, "result", Value("dict", <<"{'n': 1}">>, EmptyFrame))
           [] tok = S_NONE -> Bind(st, "result", NoneValue)
           [] tok = S_TABLE -> Bind(st, "result", st.locals["df_deals"])
           [] tok = S_BADSTR -> Bind(st, "result", Value("R", <<>>, EmptyFrame))
           [] tok = S_OTHER -> Bind(st, "total", Value("int", <<"1">>, EmptyFrame))
           [] tok = S_DROP_DEALS -> DropInPlace(st, "df_deals")
           [] tok = S_DROP_ORDERS -> DropInPlace(st, "df_orders")
           [] tok = S_REBIND -> Bind(st, "df_deals", NewFrame(EmptyFrame))
           [] tok = S_OPEN -> Bind(st, "fh", Value("file", <<"app.py">>, EmptyFrame))
           [] tok = S_RAISE -> [st EXCEPT !.exc = "ValueError"]
           [] tok = S_EXIT -> [st EXCEPT !.exc = "SystemExit"]
           [] OTHER -> st

RECURSIVE ExecStatements(_, _)
\* the statements in order, up to the first that raises
ExecStatements(st, code) ==
    IF code = <<>> \/ st.exc # "" THEN st
    ELSE ExecStatements(ExecStatement(st, Head(code)), Tail(code))

\* local_vars as built at lines 150-154: the two session_state frames
\* themselves and the pandas module
InitialLocals ==
    [n \in LocalNames |->
        CASE n = "df_deals" -> FrameRef("df_deals")
          [] n = "df_orders" -> FrameRef("df_orders")
          [] n = "pd" -> PandasModule
          [] OTHER -> Unbound]

NoLocals == [n \in LocalNames |-> Unbound]

\* exec(code, {}, local_vars) on the frames deals and orders
Exec(code, deals, orders) ==
    LET st0 == [locals |-> InitialLocals, deals |-> deals, orders |-> orders, exc |-> ""]
    IN  IF \E i \in 1..Len(code) : IsSyntaxError(code[i])
        THEN [st0 EXCEPT !.exc = "SyntaxError"]
        ELSE ExecStatements(st0, code)

\* except Exception: SystemExit derives from BaseException only
IsException(exc) == exc \notin {"", "SystemExit"}

\* local_vars.get('result')
GetResult(locals) == IF locals["result"] = Unbound THEN NoneValue ELSE locals["result"]

\* ------------------------------------------------------------ formatting
ANSWER == "**Answer:**"
NL2 == "\n\n"
FOOTER == "*Analysis by gpt-oss-120b*"
ERROR_PREFIX == "Error: "
ERROR_ADVICE == "Please try rephrasing your question or check the data."
KEY_MISSING == "Please enter your OpenRouter API Key in the sidebar."
NO_DATA == "No data"

\* the frame a DataFrame value denotes
FrameValue(val, deals, orders) ==
    IF IsFrameRef(val)
    THEN IF val.v = <<"df_deals">> THEN deals ELSE orders
    ELSE val.df

\* whether str(val) raises
StrRaises(val) == val.kind = "R"

\* Format with a captured None shown as no text at all
Format_NoneAsEmpty(val, deals, orders) ==
    IF val.kind = "DataFrame"
    THEN [raised |-> FALSE,
          text |-> <<ANSWER, NL2>> \o ToMarkdown(FrameValue(val, deals, orders))
                   \o <<NL2, FOOTER>>]
    ELSE IF StrRaises(val)
    THEN [raised |-> TRUE, text |-> <<"TypeError">>]
    ELSE IF val = NoneValue
    THEN [raised |-> FALSE, text |-> <<>>]
    ELSE [raised |-> FALSE, text |-> <<ANSWER, WS>> \o val.v \o <<NL2, FOOTER>>]

\* lines 160-163: the text returned for the captured value, or the
\* exception its rendering raises
Format(val, deals, orders) ==
    IF val.kind = "DataFrame"
    THEN [raised |-> FALSE,
          text |-> <<ANSWER, NL2>> \o ToMarkdown(FrameValue(val, deals, orders))
                   \o <<NL2, FOOTER>>]
    ELSE IF StrRaises(val)
    THEN [raised |-> TRUE, text |-> <<"TypeError">>]
    ELSE [raised |-> FALSE, text |-> <<ANSWER, WS>> \o val.v \o <<NL2, FOOTER>>]

\* line 168
ErrorMessage(exc) == <<ERROR_PREFIX, exc, NL2, ERROR_ADVICE>>

\* ExtractCode taking the last python block instead of the first
ExtractCode_LastBlock(text) ==
    LET pieces == Split(text, FENCE_PY)
    IN  Strip(Split(pieces[Len(pieces)], FENCE)[1])

\* lines 148-149: the program taken from the completion text
ExtractCode(text) == Strip(Split(Split(text, FENCE_PY)[2], FENCE)[1])

\* lines 119-138: the prompt
HeadText(df) == IF ~IsEmpty(df) THEN ToMarkdown(HeadOf(df, HeadRows)) ELSE <<NO_DATA>>
BuildPrompt(q, deals, orders) ==
    <<"Sample df_deals:">> \o HeadText(deals) \o <<"Sample df_orders:">>
    \o HeadText(orders) \o <<"User Query:", q, "Task: Write Python code">>

\* ------------------------------------------------------------------ state
VARIABLES
    messages,            \* st.session_state.messages: the role of each message
    df_deals,            \* st.session_state.df_deals
    df_orders,           \* st.session_state.df_orders
    data_loaded,         \* st.session_state.data_loaded
    OPENROUTER_API_KEY,  \* the sidebar's values, read by every script run
    MONDAY_API_KEY,
    DEALS_ID,
    WORK_ORDERS_ID,
    pc,                  \* the stage of the query being processed, or Idle
    query,               \* ask_agent's parameter and locals
    prompt,
    text,
    code,
    local_vars,
    result,
    response,            \* what ask_agent returned, or the exception it let out
    op,                  \* the handler the current script run executes
    requests,            \* the remote requests this script run has issued
    notices              \* what this script run has shown with st.error/warning/info

session == <<messages, df_deals, df_orders, data_loaded>>
sidebar == <<OPENROUTER_API_KEY, MONDAY_API_KEY, DEALS_ID, WORK_ORDERS_ID>>
frame == <<query, prompt, text, code, local_vars, result, response>>
run == <<op, requests, notices>>
vars == <<session, sidebar, pc, frame, run>>

\* None, for a text
NONE == <<"<None>">>
NoResponse == [kind |-> "none", text |-> <<>>]
Returned(t) == [kind |-> "text", text |-> t]
Raised(exc) == [kind |-> "raise", text |-> <<exc>>]

Keys == {"", "key"}
BoardIds == {"", "123"}
Queries == {"", "What is the total value of all deals?"}

\* a message of the history; its content and timestamp are not kept
Message(role) == [role |-> role]

N_FETCH_ERROR == "st.error: Error fetching data"
N_EXCEPTION == "uncaught exception"
N_SYNC_FIRST == "st.warning: Please sync with Monday.com first"
N_COUNTS == "st.info: Deals and Orders record counts"

\* lines 201-203 and 282-284: what a script run shows when no handler runs
Render(loaded) == IF loaded THEN {N_COUNTS} ELSE {N_SYNC_FIRST}

ClearFrame ==
    /\ query' = ""
    /\ prompt' = <<>>
    /\ text' = NONE
    /\ code' = NONE
    /\ local_vars' = NoLocals
    /\ result' = Unbound
    /\ response' = NoResponse

\* lines 50-58, and the first script run
Init ==
    /\ messages = <<>>
    /\ df_deals = EmptyFrame
    /\ df_orders = EmptyFrame
    /\ data_loaded = FALSE
    /\ OPENROUTER_API_KEY \in Keys
    /\ MONDAY_API_KEY \in Keys
    /\ DEALS_ID \in BoardIds
    /\ WORK_ORDERS_ID \in BoardIds
    /\ pc = "Idle"
    /\ query = ""
    /\ prompt = <<>>
    /\ text = NONE
    /\ code = NONE
    /\ local_vars = NoLocals
    /\ result = Unbound
    /\ response = NoResponse
    /\ op = "load"
    /\ requests = <<>>
    /\ notices = Render(FALSE)

\* lines 184-187: the user edits the sidebar's text inputs
EditSidebar ==
    /\ pc = "Idle"
    /\ OPENROUTER_API_KEY' \in Keys
    /\ MONDAY_API_KEY' \in Keys
    /\ DEALS_ID' \in BoardIds
    /\ WORK_ORDERS_ID' \in BoardIds
    /\ op' = "edit"
    /\ requests' = <<>>
    /\ notices' = Render(data_loaded)
    /\ UNCHANGED <<session, pc, frame>>

\* the requests and st.error notices of one fetch_board_data call
Posted(f, board) == IF f.posted THEN <<board>> ELSE <<>>
Shown(f) == IF f.error THEN {N_FETCH_ERROR} ELSE {}

\* lines 194-199: the sync button. An exception of clean_data ends the script
\* run where it is raised.
Sync ==
    /\ pc = "Idle"
    /\ \E r1 \in Replies, r2 \in Replies :
        LET f1 == fetch_board_data(DEALS_ID, MONDAY_API_KEY, r1)
            c1 == clean_data(f1.df)
            f2 == fetch_board_data(WORK_ORDERS_ID, MONDAY_API_KEY, r2)
            c2 == clean_data(f2.df)
        IN  IF c1.raised
            THEN /\ requests' = Posted(f1, "board:deals")
                 /\ notices' = Shown(f1) \cup {N_EXCEPTION}
                 /\ UNCHANGED <<df_deals, df_orders, data_loaded>>
            ELSE IF c2.raised
            THEN /\ df_deals' = c1.df
                 /\ requests' = Posted(f1, "board:deals") \o Posted(f2, "board:orders")
                 /\ notices' = Shown(f1) \cup Shown(f2) \cup {N_EXCEPTION}
                 /\ UNCHANGED <<df_orders, data_loaded>>
            ELSE /\ df_deals' = c1.df
                 /\ df_orders' = c2.df
                 /\ data_loaded' = TRUE
                 /\ requests' = Posted(f1, "board:deals") \o Posted(f2, "board:orders")
                 /\ notices' = Shown(f1) \cup Shown(f2) \cup Render(TRUE)
    /\ op' = "sync"
    /\ UNCHANGED <<messages, sidebar, pc, frame>>

\* lines 215-217: the clear chat button
ClearChat ==
    /\ pc = "Idle"
    /\ messages' = <<>>
    /\ op' = "clear"
    /\ requests' = <<>>
    /\ notices' = Render(data_loaded)
    /\ UNCHANGED <<df_deals, df_orders, data_loaded, sidebar, pc, frame>>

\* lines 282-284 and 301-317: the send button, up to ask_agent's check of the
\* key (lines 105-106). The button exists only once data_loaded is true.
Send ==
    /\ pc = "Idle"
    /\ data_loaded
    /\ Len(messages) + 2 <= MaxMessages
    /\ \E user_input \in Queries :
        IF user_input = ""
        THEN /\ notices' = Render(data_loaded)
             /\ UNCHANGED <<messages, pc, frame>>
        ELSE /\ messages' = Append(messages, Message("user"))
             /\ notices' = {}
             /\ query' = user_input
             /\ IF OPENROUTER_API_KEY = ""
                THEN /\ pc' = "Failed"
                     /\ response' = Returned(<<KEY_MISSING>>)
                     /\ UNCHANGED <<prompt, text, code, local_vars, result>>
                ELSE /\ pc' = "PromptBuilding"
                     /\ UNCHANGED <<prompt, text, code, local_vars, result, response>>
    /\ op' = "send"
    /\ requests' = <<>>
    /\ UNCHANGED <<df_deals, df_orders, data_loaded, sidebar>>

\* lines 109-138, outside the try: the client is set up and the prompt built
PromptBuilding ==
    /\ pc = "PromptBuilding"
    /\ \E client_ok \in BOOLEAN :
        IF client_ok
        THEN /\ prompt' = BuildPrompt(query, df_deals, df_orders)
             /\ pc' = "Completing"
             /\ UNCHANGED response
        ELSE /\ response' = Raised("OpenAIError")
             /\ pc' = "Failed"
             /\ UNCHANGED prompt
    /\ UNCHANGED <<session, sidebar, query, text, code, local_vars, result, run>>

\* lines 141-146: one call of client.chat.completions.create; it raises, or
\* answers with a content that is a text of texts or None
Completing(texts) ==
    /\ pc = "Completing"
    /\ requests' = Append(requests, "completion")
    /\ \E reply \in {"raises", "content"} :
        IF reply = "raises"
        THEN /\ response' = Returned(ErrorMessage("APIConnectionError"))
             /\ pc' = "Failed"
             /\ UNCHANGED text
        ELSE /\ text' \in texts \cup {NONE}
             /\ pc' = "Extracting"
             /\ UNCHANGED response
    /\ UNCHANGED <<session, sidebar, query, prompt, code, local_vars, result, op, notices>>

\* Extracting asking the service again when the text holds no program
Extracting_Retry ==
    /\ pc = "Extracting"
    /\ IF text = NONE
       THEN /\ response' = Returned(ErrorMessage("TypeError"))
            /\ pc' = "Failed"
            /\ UNCHANGED <<code, requests>>
       ELSE IF Contains(text, FENCE_PY)
       THEN /\ code' = ExtractCode(text)
            /\ pc' = "Executing"
            /\ UNCHANGED <<response, requests>>
       ELSE /\ pc' = "Completing"
            /\ requests' = <<>>
            /\ UNCHANGED <<response, code>>
    /\ UNCHANGED <<session, sidebar, query, prompt, text, local_vars, result, op, notices>>

\* lines 148-149 and 165
Extracting ==
    /\ pc = "Extracting"
    /\ IF text = NONE
       THEN /\ response' = Returned(ErrorMessage("TypeError"))
            /\ pc' = "Failed"
            /\ UNCHANGED code
       ELSE IF Contains(text, FENCE_PY)
       THEN /\ code' = ExtractCode(text)
            /\ pc' = "Executing"
            /\ UNCHANGED response
       ELSE /\ response' = Returned(text)
            /\ pc' = "Done"
            /\ UNCHANGED code
    /\ UNCHANGED <<session, sidebar, query, prompt, text, local_vars, result, run>>

\* lines 150-157: the program runs on the session's own frames
Executing ==
    /\ pc = "Executing"
    /\ LET st == Exec(code, df_deals, df_orders)
       IN  /\ local_vars' = st.locals
           /\ df_deals' = st.deals
           /\ df_orders' = st.orders
           /\ IF st.exc = ""
              THEN /\ result' = GetResult(st.locals)
                   /\ pc' = "Formatting"
                   /\ UNCHANGED response
              ELSE /\ response' = IF IsException(st.exc)
                                  THEN Returned(ErrorMessage(st.exc))
                                  ELSE Raised(st.exc)
                   /\ pc' = "Failed"
                   /\ UNCHANGED result
    /\ UNCHANGED <<messages, data_loaded, sidebar, query, prompt, text, code, run>>

\* lines 160-163
Formatting ==
    /\ pc = "Formatting"
    /\ LET f == Format(result, df_deals, df_orders)
       IN  IF f.raised
           THEN /\ response' = Returned(ErrorMessage(f.text[1]))
                /\ pc' = "Failed"
           ELSE /\ response' = Returned(f.text)
                /\ pc' = "Done"
    /\ UNCHANGED <<session, sidebar, query, prompt, text, code, local_vars, result, run>>

\* lines 319-330: the answer joins the history and the script reruns; an
\* exception that left ask_agent ends the script run before that
Deliver ==
    /\ pc \in {"Done", "Failed"}
    /\ IF response.kind = "raise"
       THEN /\ notices' = {N_EXCEPTION}
            /\ UNCHANGED messages
       ELSE /\ messages' = Append(messages, Message("assistant"))
            /\ notices' = Render(data_loaded)
    /\ pc' = "Idle"
    /\ ClearFrame
    /\ UNCHANGED <<df_deals, df_orders, data_loaded, sidebar, op, requests>>

\* ------------------------------------------------------------ completions
Block(program) == FENCE_PY \o <<WS>> \o program \o <<WS, TICKS>>

\* completion texts of the kinds the service sends
Responses ==
    { <<PROSE>>,
      <<>>,
      Block(<<S_SCALAR>>),
      Block(<<S_TEXT>>),
      Block(<<S_MAP>>),
      Block(<<S_NONE>>),
      Block(<<S_TABLE>>),
      Block(<<S_BADSTR>>),
      Block(<<S_OTHER>>),
      Block(<<S_OPEN, WS, S_SCALAR>>),
      Block(<<S_UNDEF>>),
      Block(<<S_DROP_DEALS, WS, S_SCALAR>>),
      Block(<<S_DROP_ORDERS, WS, S_RAISE>>),
      Block(<<S_REBIND, WS, S_TABLE>>),
      Block(<<S_EXIT>>),
      <<PROSE, WS>> \o Block(<<S_SCALAR>>) \o <<WS>> \o Block(<<S_NONE>>),
      <<TICKS, WS, S_SCALAR, WS, TICKS>> }

Next ==
    \/ EditSidebar
    \/ Sync
    \/ ClearChat
    \/ Send
    \/ PromptBuilding
    \/ Completing(Responses)
    \/ Extracting
    \/ Executing
    \/ Formatting
    \/ Deliver

Spec == Init /\ [][Next]_vars

\* ------------------------------------------- the extraction on every text
\* the pieces a completion text is made of
Segments == {FENCE_PY, FENCE, <<WS>>, <<PY>>, <<PROSE>>, <<S_SCALAR>>, <<S_NONE>>}

\* every text of at most MaxSegments segments
AllTexts ==
    UNION {{Flatten(segs) : segs \in [1..n -> Segments]} : n \in 0..MaxSegments}

SyncedDeals ==
    clean_data(FrameOf(ProcessedData(
        <<Item(<<"Acme">>, <<ColumnValue(<<"Value">>, StrCell(<<"7">>))>>),
          Item(<<"Bolt">>, <<ColumnValue(<<"Value">>, NullCell)>>)>>))).df

\* a session after a sync and a send, as the completion request is about to
\* be made
InitExtract ==
    /\ messages = <<Message("user")>>
    /\ df_deals = SyncedDeals
    /\ df_orders = EmptyFrame
    /\ data_loaded = TRUE
    /\ OPENROUTER_API_KEY = "key"
    /\ MONDAY_API_KEY = "key"
    /\ DEALS_ID = "123"
    /\ WORK_ORDERS_ID = "123"
    /\ pc = "Completing"
    /\ query \in Queries \ {""}
    /\ prompt = BuildPrompt(query, df_deals, df_orders)
    /\ text = NONE
    /\ code = NONE
    /\ local_vars = NoLocals
    /\ result = Unbound
    /\ response = NoResponse
    /\ op = "send"
    /\ requests = <<>>
    /\ notices = {}

NextExtract ==
    \/ Completing(AllTexts \cup Responses)
    \/ Extracting
    \/ Executing
    \/ Formatting
    \/ Deliver

SpecExtract == InitExtract /\ [][NextExtract]_vars

\* ------------------------------------------------------------------ claims
Terminal == pc \in {"Done", "Failed"}
IsAnswer(resp) ==
    /\ resp.kind = "text"
    /\ resp.text # <<>>
    /\ Head(resp.text) = ANSWER
    /\ resp.text[Len(resp.text)] = FOOTER

\* C1: whatever stage of ask_agent fails, the result of ask_agent is a text
\* message; no exception leaves ask_agent.
C1_AlwaysText == Terminal => response.kind = "text"

\* C2: a program that runs to completion without assigning result ends the
\* query in an error, never in a formatted Answer.
C2_MissingResultIsError ==
    (Terminal /\ result # Unbound /\ local_vars["result"] = Unbound)
        => (pc = "Failed" /\ ~IsAnswer(response))

AllowedNames == {"df_deals", "df_orders", "pd"}
ReadsOtherName(program) ==
    \E i \in 1..Len(program) : ~(Reads(program[i]) \subseteq AllowedNames)

\* C3: a program that looks up a name other than df_deals, df_orders and pd
\* fails when it runs, and the query ends in an error.
C3_OnlyThreeNames ==
    (Terminal /\ code # NONE /\ ReadsOtherName(code))
        => (pc = "Failed" /\ ~IsAnswer(response))

\* C4: the two stored frames change only in a sync; no step of a query
\* changes them.
C4_FramesChangeOnlyInSync ==
    [][(df_deals' # df_deals \/ df_orders' # df_orders)
          => (pc = "Idle" /\ op' = "sync")]_vars

\* ---- C5
\* the place of the first python marker in t, 0 when there is none
MarkerAt(t) ==
    LET at(i) == i < Len(t) /\ t[i] = TICKS /\ t[i + 1] = PY
    IN  IF \E i \in 1..Len(t) : at(i)
        THEN CHOOSE i \in 1..Len(t) : at(i) /\ \A j \in 1..(i - 1) : ~at(j)
        ELSE 0

\* the place of the first fence after the marker at i, Len(t) + 1 when none
ClosingAfter(t, i) ==
    LET at(j) == j > i + 1 /\ t[j] = TICKS
    IN  IF \E j \in 1..Len(t) : at(j)
        THEN CHOOSE j \in 1..Len(t) : at(j) /\ \A k \in 1..(j - 1) : ~at(k)
        ELSE Len(t) + 1

FirstPythonBlock(t) ==
    Strip(SubSeq(t, MarkerAt(t) + 2, ClosingAfter(t, MarkerAt(t)) - 1))

Extracted == pc \in {"Executing", "Formatting", "Done", "Failed"} /\ text # NONE

\* C5 (amended): a text without the python marker is returned unchanged and
\* no program runs; otherwise the program run is the text between the first
\* python marker and the next fence (or the end), stripped of whitespace.
C5_FirstPythonBlock ==
    Extracted =>
        IF MarkerAt(text) = 0
        THEN /\ pc = "Done"
             /\ response = Returned(text)
             /\ code = NONE
             /\ local_vars = NoLocals
        ELSE /\ code = FirstPythonBlock(text)
             /\ (pc # "Executing" => local_vars # NoLocals)

C5_Witness ==
    /\ pc = "Done"
    /\ text = FENCE_PY \o <<S_SCALAR>> \o FENCE_PY \o <<S_NONE>>
    /\ code = <<S_SCALAR>>
    /\ result.v = <<"42">>

\* the first fenced block of t, tagged or not: from the first fence to the next
FirstFenceAt(t) == Find(t, FENCE)
HasClosedFence(t) ==
    /\ FirstFenceAt(t) # 0
    /\ \E j \in (FirstFenceAt(t) + 1)..Len(t) : t[j] = TICKS
FirstFencedBlock(t) ==
    LET i == FirstFenceAt(t)
        j == CHOOSE j \in (i + 1)..Len(t) :
                t[j] = TICKS /\ \A k \in (i + 1)..(j - 1) : t[k] # TICKS
        from == IF i < Len(t) /\ t[i + 1] = PY THEN i + 2 ELSE i + 1
    IN  SubSeq(t, from, j - 1)

\* a fenced block that holds some code
HasFencedBlock(t) == HasClosedFence(t) /\ Strip(FirstFencedBlock(t)) # <<>>

\* C5 as stated: with no fenced block the text is returned unchanged and no
\* program runs; with one, the program run is exactly the first block's content.
C5_FirstFencedBlock ==
    (Terminal /\ text # NONE) =>
        IF ~HasClosedFence(text)
        THEN response = Returned(text) /\ code = NONE /\ local_vars = NoLocals
        ELSE HasFencedBlock(text)
                => (code = FirstFencedBlock(text) /\ local_vars # NoLocals)

\* ---- C6
Stages == <<"PromptBuilding", "Completing", "Extracting", "Executing", "Formatting", "Done">>
Rank(p) == CHOOSE i \in 1..Len(Stages) : Stages[i] = p
InOrder(p) == \E i \in 1..Len(Stages) : Stages[i] = p
CompletionRequests(reqs) == Cardinality({i \in 1..Len(reqs) : reqs[i] = "completion"})

Alerts == {N_FETCH_ERROR, N_EXCEPTION, N_SYNC_FIRST}
C7_MissingConfigSurfaced ==
    /\ (op = "send" /\ pc # "Idle" /\ OPENROUTER_API_KEY = "")
         => (pc = "Failed" /\ response = Returned(<<KEY_MISSING>>) /\ requests = <<>>)
    /\ (op = "sync" /\ (MONDAY_API_KEY = "" \/ DEALS_ID = ""))
         => (\A i \in 1..Len(requests) : requests[i] # "board:deals")
    /\ (op = "sync" /\ (MONDAY_API_KEY = "" \/ WORK_ORDERS_ID = ""))
         => (\A i \in 1..Len(requests) : requests[i] # "board:orders")
    /\ (op = "sync" /\ (MONDAY_API_KEY = "" \/ DEALS_ID = "" \/ WORK_ORDERS_ID = ""))
         => notices \cap Alerts # {}

\* ---- C8
ListedKinds == {"DataFrame", "int", "dict", "str", "NoneType"}

\* C8: every captured table, scalar, mapping, text or None is formatted to a
\* non-empty text that ends with the model's footer: a DataFrame as a table,
\* anything else as a labelled answer.
C8_FormatTotal ==
    (Terminal /\ result # Unbound /\ result.kind \in ListedKinds) =>
        /\ pc = "Done"
        /\ response.kind = "text"
        /\ Len(response.text) >= 4
        /\ response.text[1] = ANSWER
        /\ response.text[Len(response.text)] = FOOTER
        /\ response.text[Len(response.text) - 1] = NL2
        /\ LET body == SubSeq(response.text, 3, Len(response.text) - 2)
           IN  IF result.kind = "DataFrame"
               THEN /\ response.text[2] = NL2
                    /\ body = ToMarkdown(FrameValue(result, df_deals, df_orders))
               ELSE /\ response.text[2] = WS
                    /\ body = result.v
                    /\ body # <<>>

C8_Witness ==
    /\ pc = "Done"
    /\ result = NoneValue
    /\ local_vars["result"] = NoneValue
    /\ response.text = <<ANSWER, WS, "None", NL2, FOOTER>>

\* C9: between handlers the history has even length and alternates user,
\* assistant.
C9_HistoryAlternates ==
    pc = "Idle" =>
        /\ Len(messages) % 2 = 0
        /\ \A i \in 1..Len(messages) :
              messages[i].role = IF i % 2 = 1 THEN "user" ELSE "assistant"

\* C10: no query runs and no message is stored while data_loaded is false,
\* and every sync ends with data_loaded true.
C10_SyncSetsLoaded ==
    /\ ~data_loaded => (pc = "Idle" /\ messages = <<>>)
    /\ op = "sync" => data_loaded

====
